---------------------------- MODULE Spec2Model ----------------------------
(***************************************************************************)
(* A model of pdf2md (src/pdf2md.py, src/web.py): the font histogram and   *)
(* heading map of convert, the outline parsers parse_bookmarks and         *)
(* parse_bookmarks_from_toc, _compute_page_ranges, and the path building   *)
(* loop of batch_convert_to_zip.                                           *)
(*                                                                         *)
(* Text is a sequence of one-character strings, so that strip, sanitize    *)
(* and join are computed character by character.  Font sizes are integers: *)
(* a span's raw size is in hundredths of a point, a rounded size (a key of *)
(* the histogram) is in tenths of a point.  Python tuples are TLA+ tuples  *)
(* with the same field order: an item is <<name, page, level>>, a chapter  *)
(* is <<name, start, end, level>>.                                         *)
(***************************************************************************)
EXTENDS Integers, Sequences, FiniteSets, TLC

VARIABLES
    phase,          \* position of the caller (main / process_pdf / process_pdf_batch)
    doc,            \* the opened PDF: a sequence of pages, each a sequence of blocks
    total_pages,    \* len(doc) as read by the caller
    source,         \* "xml" (-b / bookmark file) or "toc" (--toc / embedded outline)
    xml_root,       \* children of the XML root: a forest of ITEM elements
    toc,            \* doc.get_toc(simple=True): <<level, title, page>> triples
    page_offset,    \* the page_offset argument
    given,          \* the item list as passed to _compute_page_ranges
    items,          \* the item list (sorted in place by _compute_page_ranges)
    chapters,       \* the chapter list
    error,          \* the exception that left the parser, or "none"
    size_counter,   \* the Counter of convert, in insertion order: <<size, count>>
    body_size,      \* body_size of convert / build_heading_map
    heading_map,    \* heading_map: size -> level
    page_indices,   \* the page_indices argument of convert
    md_text,        \* what the last convert returned
    warned,         \* whether the last convert issued its warning
    rendered,       \* the page indices the last convert called process_page with
    written,        \* the texts the caller wrote to its output file
    path_context,   \* batch_convert_to_zip: level -> sanitized name
    counters,       \* batch_convert_to_zip: parent path -> sequence number
    archive,        \* the entries written with zf.writestr: <<full_path, md_text>>
    steps,          \* per processed chapter: its parent_key, seq and full_path
    data_blocks,    \* process_page: the blocks of data["blocks"] taken so far
    page_parts,     \* process_page: page_parts
    block_parts,    \* process_page: block_parts
    pending_lines,  \* process_page: pending_lines
    outcome         \* what the caller ended with: "none", "ok" or "error"

vars == <<phase, doc, total_pages, source, xml_root, toc, page_offset, given,
          items, chapters, error, size_counter, body_size, heading_map,
          page_indices, md_text, warned, rendered, written, path_context,
          counters, archive, steps, data_blocks, page_parts, block_parts,
          pending_lines, outcome>>

outlineVars == <<source, xml_root, toc, page_offset>>
rangeVars == <<given, items, chapters, error>>
fontVars == <<size_counter, body_size, heading_map>>
convertVars == <<page_indices, md_text, warned, rendered, written>>
batchVars == <<path_context, counters, archive, steps>>
blockVars == <<data_blocks, page_parts, block_parts, pending_lines>>

-----------------------------------------------------------------------------
(* Bounds of the model.                                                    *)

MaxItems == 3
MaxPages == 3

-----------------------------------------------------------------------------
(* Small helpers on sequences and text.                                    *)

Max(a, b) == IF a >= b THEN a ELSE b
Min(a, b) == IF a <= b THEN a ELSE b

SeqsUpTo(S, n) == UNION {[1..k -> S] : k \in 0..n}

Range(s) == {s[i] : i \in DOMAIN s}

\* range(lo, hi + 1) as a list
RangeList(lo, hi) == [i \in 1..(hi - lo + 1) |-> lo + i - 1]

\* sorted(S) for a set of integers
RECURSIVE ascending(_)
ascending(S) ==
    IF S = {} THEN <<>>
    ELSE LET m == CHOOSE x \in S : \A y \in S : x <= y
         IN  <<m>> \o ascending(S \ {m})

reversed(s) == [i \in DOMAIN s |-> s[Len(s) + 1 - i]]

-----------------------------------------------------------------------------
(* _compute_page_ranges                                                    *)

\* an unstable variant: x goes before the items of its own page
RECURSIVE insert_before_equal(_, _)
insert_before_equal(x, s) ==
    IF s = <<>> THEN <<x>>
    ELSE IF x[2] <= Head(s)[2] THEN <<x>> \o s
    ELSE <<Head(s)>> \o insert_before_equal(x, Tail(s))

RECURSIVE insert_after_equal(_, _)
insert_after_equal(x, s) ==
    IF s = <<>> THEN <<x>>
    ELSE IF x[2] < Head(s)[2] THEN <<x>> \o s
    ELSE <<Head(s)>> \o insert_after_equal(x, Tail(s))

\* one step of the stable sort: x, met after every item of s in the list,
\* goes behind the items of s whose page is at most its own
insert_by_page(x, s) == insert_after_equal(x, s)

RECURSIVE sort_into(_, _)
sort_into(list, acc) ==
    IF list = <<>> THEN acc
    ELSE sort_into(Tail(list), insert_by_page(Head(list), acc))

\* items.sort(key=lambda x: x[1]): list.sort is stable
sort_by_page(list) == sort_into(list, <<>>)

\* a variant that ends a chapter on the next item's own page
chapter_end_overlapping(sorted, i, total) ==
    IF i + 1 <= Len(sorted) THEN sorted[i + 1][2] - 1 ELSE total - 1

\* a variant whose last chapter ends one page past the document
chapter_end_past_last(sorted, i, total) ==
    IF i + 1 <= Len(sorted)
    THEN Max(sorted[i + 1][2] - 2, sorted[i][2] - 1)
    ELSE total

\* end = max(items[i + 1][1] - 2, start) if i + 1 < len(items) else total_pages - 1
\* (i is 1-based here)
chapter_end(sorted, i, total) ==
    IF i + 1 <= Len(sorted)
    THEN Max(sorted[i + 1][2] - 2, sorted[i][2] - 1)
    ELSE total - 1

compute_page_ranges(list, total) ==
    LET sorted == sort_by_page(list)
    IN  [i \in 1..Len(sorted) |->
            <<sorted[i][1], sorted[i][2] - 1, chapter_end(sorted, i, total),
              sorted[i][3]>>]

-----------------------------------------------------------------------------
(* Text: str.strip, str.join, decimal digits.                              *)

Whitespace == {" "}

RECURSIVE lstrip(_)
lstrip(s) ==
    IF s = <<>> THEN s
    ELSE IF Head(s) \in Whitespace THEN lstrip(Tail(s)) ELSE s

RECURSIVE rstrip(_)
rstrip(s) ==
    IF s = <<>> THEN s
    ELSE IF s[Len(s)] \in Whitespace THEN rstrip(SubSeq(s, 1, Len(s) - 1))
    ELSE s

\* str.strip()
strip(s) == rstrip(lstrip(s))

\* sep.join(parts)
RECURSIVE join(_, _)
join(sep, parts) ==
    IF parts = <<>> THEN <<>>
    ELSE IF Len(parts) = 1 THEN parts[1]
    ELSE parts[1] \o sep \o join(sep, Tail(parts))

DigitChar == <<"0", "1", "2", "3", "4", "5", "6", "7", "8", "9">>

\* str(n) for n >= 0
RECURSIVE decimal(_)
decimal(n) ==
    IF n < 10 THEN <<DigitChar[n + 1]>>
    ELSE decimal(n \div 10) \o <<DigitChar[(n % 10) + 1]>>

-----------------------------------------------------------------------------
(* collect_font_stats, Counter.most_common(1), build_heading_map           *)

\* round(span["size"], 1): hundredths of a point to the nearest tenth (the
\* raw sizes of the model are never half way between two tenths)
round1(size) == (size + 5) \div 10

counter_keys(counter) == [i \in DOMAIN counter |-> counter[i][1]]

\* size_counter[size] += n: a new key goes to the end of the Counter
counter_add(counter, size, n) ==
    IF \E i \in DOMAIN counter : counter[i][1] = size
    THEN [i \in DOMAIN counter |->
            IF counter[i][1] = size THEN <<size, counter[i][2] + n>>
            ELSE counter[i]]
    ELSE Append(counter, <<size, n>>)

RECURSIVE stats_spans(_, _)
stats_spans(spans, counter) ==
    IF spans = <<>> THEN counter
    ELSE LET text == strip(Head(spans).text)
         IN  stats_spans(Tail(spans),
                 IF text # <<>>
                 THEN counter_add(counter, round1(Head(spans).size), Len(text))
                 ELSE counter)

RECURSIVE stats_lines(_, _)
stats_lines(lines, counter) ==
    IF lines = <<>> THEN counter
    ELSE stats_lines(Tail(lines), stats_spans(Head(lines).spans, counter))

RECURSIVE stats_blocks(_, _)
stats_blocks(blocks, counter) ==
    IF blocks = <<>> THEN counter
    ELSE stats_blocks(Tail(blocks),
             IF Head(blocks).type # 0 THEN counter
             ELSE stats_lines(Head(blocks).lines, counter))

RECURSIVE stats_pages(_, _, _)
stats_pages(document, indices, counter) ==
    IF indices = <<>> THEN counter
    ELSE stats_pages(document, Tail(indices),
             stats_blocks(document[Head(indices) + 1], counter))

collect_font_stats(document, indices) == stats_pages(document, indices, <<>>)

\* a variant that takes the last of the keys with the highest count
most_common_last(counter) ==
    counter[CHOOSE i \in DOMAIN counter :
                \A j \in DOMAIN counter :
                    \/ counter[j][2] < counter[i][2]
                    \/ counter[j][2] = counter[i][2] /\ j <= i]

\* size_counter.most_common(1)[0]: max() over the items in insertion order
\* keeps the first item with the highest count
most_common(counter) ==
    counter[CHOOSE i \in DOMAIN counter :
                \A j \in DOMAIN counter :
                    \/ counter[j][2] < counter[i][2]
                    \/ counter[j][2] = counter[i][2] /\ j >= i]

MaxHeadingLevel == 6

RECURSIVE insert_descending(_, _)
insert_descending(x, s) ==
    IF s = <<>> THEN <<x>>
    ELSE IF x > Head(s) THEN <<x>> \o s
    ELSE <<Head(s)>> \o insert_descending(x, Tail(s))

RECURSIVE sort_descending(_, _)
sort_descending(list, acc) ==
    IF list = <<>> THEN acc
    ELSE sort_descending(Tail(list), insert_descending(Head(list), acc))

\* a variant that also takes the body size itself
heading_sizes_with_body(counter, body) ==
    LET larger(x) == x >= body
    IN  sort_descending(SelectSeq(counter_keys(counter), larger), <<>>)

\* sorted((s for s in size_counter if s > body_size), reverse=True)
heading_sizes(counter, body) ==
    LET larger(x) == x > body
    IN  sort_descending(SelectSeq(counter_keys(counter), larger), <<>>)

\* the dict heading_map: heading_map[size] = min(i + 1, 6), i from 0
build_heading_map(counter, body) ==
    LET sizes == heading_sizes(counter, body)
    IN  [x \in Range(sizes) |->
            Min(CHOOSE i \in DOMAIN sizes : sizes[i] = x, MaxHeadingLevel)]

-----------------------------------------------------------------------------
(* process_line, merge_lines, process_page, convert                        *)

\* characters whose Unicode name holds CJK, HIRAGANA, KATAKANA or HANGUL,
\* written by code point
CJKChars == {"U+4F60", "U+597D", "U+4E16", "U+754C"}

is_cjk_char(ch) == ch \in CJKChars

\* is_cjk_text: more than 30% of the non-space characters are CJK
is_cjk_text(text) ==
    LET total == Cardinality({i \in DOMAIN text : text[i] \notin Whitespace})
        cjk_count == Cardinality({i \in DOMAIN text : is_cjk_char(text[i])})
    IN  /\ text # <<>>
        /\ total # 0
        /\ 10 * cjk_count > 3 * total

RECURSIVE line_texts(_)
line_texts(spans) ==
    IF spans = <<>> THEN <<>>
    ELSE (IF strip(Head(spans).text) # <<>> THEN Head(spans).text ELSE <<>>)
         \o line_texts(Tail(spans))

RECURSIVE line_max_size(_, _)
line_max_size(spans, max_size) ==
    IF spans = <<>> THEN max_size
    ELSE line_max_size(Tail(spans),
             IF strip(Head(spans).text) # <<>>
             THEN Max(max_size, round1(Head(spans).size))
             ELSE max_size)

\* process_line: <<merged, max_size>>
process_line(line) ==
    <<strip(line_texts(line.spans)), line_max_size(line.spans, 0)>>

merge_lines(lines, cjk_mode) ==
    IF cjk_mode THEN join(<<>>, lines) ELSE join(<<" ">>, lines)

\* a variant that drops the pending lines
flush_pending_never(parts, pending) == parts

\* if pending_lines: block_parts.append(merge_lines(pending_lines, cjk))
flush_pending(parts, pending) ==
    IF pending = <<>> THEN parts
    ELSE Append(parts,
                merge_lines(pending,
                            is_cjk_text(join(<<>>, pending))))

\* f"{'#' * level} {text}"
heading_line(level, text) == [i \in 1..level |-> "#"] \o <<" ">> \o text

\* the loop over block["lines"] and the flush behind it: the block_parts
RECURSIVE block_lines(_, _, _, _)
block_lines(lines, map, parts, pending) ==
    IF lines = <<>> THEN flush_pending(parts, pending)
    ELSE LET text == process_line(Head(lines))[1]
             max_size == process_line(Head(lines))[2]
         IN  IF text = <<>>
             THEN block_lines(Tail(lines), map, parts, pending)
             ELSE IF max_size \in DOMAIN map
             THEN block_lines(Tail(lines), map,
                      Append(flush_pending(parts, pending),
                             heading_line(map[max_size], text)),
                      <<>>)
             ELSE block_lines(Tail(lines), map, parts,
                              Append(pending, text))

RECURSIVE page_blocks(_, _, _)
page_blocks(blocks, map, done) ==
    IF blocks = <<>> THEN done
    ELSE IF Head(blocks).type # 0 THEN page_blocks(Tail(blocks), map, done)
    ELSE LET parts == block_lines(Head(blocks).lines, map, <<>>, <<>>)
         IN  page_blocks(Tail(blocks), map,
                 IF parts # <<>>
                 THEN Append(done, join(<<"\n", "\n">>, parts))
                 ELSE done)

process_page(page, map, body) ==
    join(<<"\n", "\n">>, page_blocks(page, map, <<>>))

\* page_sep.format(n=page_num) for the template "<!-- Page {n} -->"
page_sep_format(n) ==
    <<"<", "!", "-", "-", " ", "P", "a", "g", "e", " ">> \o decimal(n)
        \o <<" ", "-", "-", ">">>

\* one section of the second pass: i is the 0-based position in page_indices
convert_section(document, indices, i, map, body) ==
    LET idx == indices[i + 1]
        content == process_page(document[idx + 1], map, body)
        parts == (IF i > 0 THEN <<<<"-", "-", "-">>, <<>>>> ELSE <<>>)
                 \o <<page_sep_format(idx + 1), <<>>>>
                 \o (IF content # <<>> THEN <<content>> ELSE <<>>)
    IN  join(<<"\n">>, parts)

\* convert: the returned text, whether the warning was issued, the locals of
\* the first pass and the pages handed to process_page
convert(document, indices) ==
    LET pages == IF indices = <<>> THEN RangeList(0, Len(document) - 1)
                 ELSE indices
        counter == collect_font_stats(document, pages)
    IN  IF counter = <<>>
        THEN [md_text |-> <<>>, warned |-> TRUE, size_counter |-> counter,
              body_size |-> 0, heading_map |-> <<>>, rendered |-> <<>>]
        ELSE LET body == most_common(counter)[1]
                 map == build_heading_map(counter, body)
                 sections == [i \in 1..Len(pages) |->
                                convert_section(document, pages, i - 1, map, body)]
             IN  [md_text |-> join(<<"\n", "\n">>, sections) \o <<"\n">>,
                  warned |-> FALSE, size_counter |-> counter,
                  body_size |-> body, heading_map |-> map, rendered |-> pages]

-----------------------------------------------------------------------------
(* sanitize_filename and the loop body of batch_convert_to_zip             *)

IllegalChars == {"\\", "/", ":", "*", "?", "\"", "<", ">", "|"}

MaxNameLength == 80

RECURSIVE remove_illegal(_)
remove_illegal(s) ==
    IF s = <<>> THEN <<>>
    ELSE (IF Head(s) \in IllegalChars THEN <<>> ELSE <<Head(s)>>)
         \o remove_illegal(Tail(s))

\* re.sub(r'\s+', '_', s): every run of whitespace becomes one underscore
RECURSIVE collapse_whitespace(_)
collapse_whitespace(s) ==
    IF s = <<>> THEN <<>>
    ELSE IF Head(s) \in Whitespace
    THEN <<"_">> \o collapse_whitespace(lstrip(s))
    ELSE <<Head(s)>> \o collapse_whitespace(Tail(s))

Untitled == <<"u", "n", "t", "i", "t", "l", "e", "d">>

sanitize_filename(name) ==
    LET collapsed == collapse_whitespace(strip(remove_illegal(name)))
        sanitized == SubSeq(collapsed, 1, Min(Len(collapsed), MaxNameLength))
    IN  IF sanitized # <<>> THEN sanitized ELSE Untitled

\* f"{seq:02d}"
format_02d(seq) == IF seq < 10 THEN <<"0">> \o decimal(seq) ELSE decimal(seq)

\* a variant that never clears the deeper levels of the context
clear_context_never(context, level) == context

\* for k in list(path_context): if k >= level: del path_context[k]
clear_context(context, level) ==
    [k \in {l \in DOMAIN context : l < level} |-> context[k]]

\* [path_context[l] for l in sorted(path_context) if l < level]
parent_parts(context, level) ==
    LET keys == ascending({l \in DOMAIN context : l < level})
    IN  [i \in DOMAIN keys |-> context[keys[i]]]

\* a variant that numbers the chapters of all parents in one sequence
next_seq_global(counts, parent_key) ==
    LET sum[S \in SUBSET DOMAIN counts] ==
            IF S = {} THEN 0
            ELSE LET k == CHOOSE x \in S : TRUE
                 IN  counts[k] + sum[S \ {k}]
    IN  sum[DOMAIN counts] + 1

\* a variant that numbers every chapter 1
next_seq_first(counts, parent_key) == 1

\* counters.get(parent_key, 0) + 1
next_seq(counts, parent_key) ==
    (IF parent_key \in DOMAIN counts THEN counts[parent_key] ELSE 0) + 1

\* one iteration of the loop of batch_convert_to_zip, for the chapter ch
BatchStep(ch) ==
    LET name == ch[1]
        start == ch[2]
        end == ch[3]
        level == ch[4]
        context == clear_context(path_context, level)
        parent_key == join(<<"/">>, parent_parts(context, level))
        seq == next_seq(counters, parent_key)
        filename == format_02d(seq) \o <<"_">> \o sanitize_filename(name)
                        \o <<".", "m", "d">>
        full_path == IF parent_key # <<>>
                     THEN parent_key \o <<"/">> \o filename ELSE filename
        r == convert(doc, RangeList(start, end))
    IN  /\ counters' = [k \in DOMAIN counters \cup {parent_key} |->
                            IF k = parent_key THEN seq ELSE counters[k]]
        /\ path_context' = [k \in DOMAIN context \cup {level} |->
                                IF k = level THEN sanitize_filename(name)
                                ELSE context[k]]
        /\ page_indices' = RangeList(start, end)
        /\ size_counter' = r.size_counter
        /\ body_size' = r.body_size
        /\ heading_map' = r.heading_map
        /\ md_text' = r.md_text
        /\ warned' = r.warned
        /\ rendered' = r.rendered
        /\ archive' = Append(archive, <<full_path, r.md_text>>)
        /\ steps' = Append(steps, [parent_key |-> parent_key, seq |-> seq,
                                   full_path |-> full_path])
        /\ UNCHANGED <<doc, total_pages, blockVars, outlineVars, given, items, error,
                       written>>

-----------------------------------------------------------------------------
(* _walk_xml_items, parse_bookmarks, parse_bookmarks_from_toc              *)
(*                                                                         *)
(* An ITEM element is [name, page, children]: its NAME and PAGE attributes *)
(* (item.get(..., "") gives "" for a missing attribute, so a missing one   *)
(* is the empty text) and its ITEM children in document order.             *)

\* a variant that does not descend into an element it skips
RECURSIVE walk_kept_items_only(_, _)
walk_kept_items_only(forest, depth) ==
    IF forest = <<>> THEN <<>>
    ELSE LET item == Head(forest)
             name == strip(item.name)
             page_str == item.page
         IN  (IF name # <<>> /\ page_str # <<>>
              THEN <<<<name, page_str, depth>>>>
                   \o walk_kept_items_only(item.children, depth + 1)
              ELSE <<>>)
             \o walk_kept_items_only(Tail(forest), depth)

\* _walk_xml_items(element, depth) for an element with the ITEM children
\* forest: <<name, page_str, depth>> triples
RECURSIVE walk_xml_items(_, _)
walk_xml_items(forest, depth) ==
    IF forest = <<>> THEN <<>>
    ELSE LET item == Head(forest)
             name == strip(item.name)
             page_str == item.page
         IN  (IF name # <<>> /\ page_str # <<>>
              THEN <<<<name, page_str, depth>>>> ELSE <<>>)
             \o walk_xml_items(item.children, depth + 1)
             \o walk_xml_items(Tail(forest), depth)

Digits == {DigitChar[i] : i \in DOMAIN DigitChar}

digit_value(ch) == (CHOOSE i \in DOMAIN DigitChar : DigitChar[i] = ch) - 1

RECURSIVE digits_value(_, _)
digits_value(s, acc) ==
    IF s = <<>> THEN acc
    ELSE digits_value(Tail(s), 10 * acc + digit_value(Head(s)))

\* int(page_str): white space around the number and a sign are accepted;
\* anything else raises ValueError (ok = FALSE)
parse_int(text) ==
    LET stripped == strip(text)
        signed == stripped # <<>> /\ Head(stripped) \in {"+", "-"}
        body == IF signed THEN Tail(stripped) ELSE stripped
    IN  IF body # <<>> /\ \A i \in DOMAIN body : body[i] \in Digits
        THEN [ok |-> TRUE,
              value |-> IF signed /\ Head(stripped) = "-"
                        THEN 0 - digits_value(body, 0)
                        ELSE digits_value(body, 0)]
        ELSE [ok |-> FALSE, value |-> 0]

\* a variant that checks the lower end only
page_out_of_range_low_only(page, total) == page < 1

\* if page < 1 or page > total_pages: raise BookmarkError
page_out_of_range(page, total) == page < 1 \/ page > total

\* the loop of parse_bookmarks over raw_items: the error raised, or the items
RECURSIVE xml_items(_, _, _, _)
xml_items(raw_items, total, offset, acc) ==
    IF raw_items = <<>> THEN [error |-> "none", items |-> acc]
    ELSE LET name == Head(raw_items)[1]
             parsed == parse_int(Head(raw_items)[2])
             depth == Head(raw_items)[3]
             page == parsed.value + offset
         IN  IF ~parsed.ok THEN [error |-> "BookmarkError", items |-> <<>>]
             ELSE IF page_out_of_range(page, total)
             THEN [error |-> "BookmarkError", items |-> <<>>]
             ELSE xml_items(Tail(raw_items), total, offset,
                            Append(acc, <<name, page, depth>>))

\* parse_bookmarks: the error raised, the items handed to
\* _compute_page_ranges and the chapters returned
parse_bookmarks(root, total, offset) ==
    LET raw_items == walk_xml_items(root, 1)
        r == xml_items(raw_items, total, offset, <<>>)
    IN  IF raw_items = <<>>
        THEN [error |-> "BookmarkError", items |-> <<>>, chapters |-> <<>>]
        ELSE IF r.error # "none"
        THEN [error |-> r.error, items |-> <<>>, chapters |-> <<>>]
        ELSE [error |-> "none", items |-> r.items,
              chapters |-> compute_page_ranges(r.items, total)]

\* the loop of parse_bookmarks_from_toc over toc
RECURSIVE toc_items(_, _, _, _)
toc_items(entries, total, offset, acc) ==
    IF entries = <<>> THEN [error |-> "none", items |-> acc]
    ELSE LET level == Head(entries)[1]
             name == strip(Head(entries)[2])
             page == Head(entries)[3] + offset
         IN  IF name = <<>> THEN toc_items(Tail(entries), total, offset, acc)
             ELSE IF page_out_of_range(page, total)
             THEN [error |-> "BookmarkError", items |-> <<>>]
             ELSE toc_items(Tail(entries), total, offset,
                            Append(acc, <<name, page, level>>))

parse_bookmarks_from_toc(entries, total, offset) ==
    LET r == toc_items(entries, total, offset, <<>>)
    IN  IF entries = <<>>
        THEN [error |-> "BookmarkError", items |-> <<>>, chapters |-> <<>>]
        ELSE IF r.error # "none"
        THEN [error |-> r.error, items |-> <<>>, chapters |-> <<>>]
        ELSE IF r.items = <<>>
        THEN [error |-> "BookmarkError", items |-> <<>>, chapters |-> <<>>]
        ELSE [error |-> "none", items |-> r.items,
              chapters |-> compute_page_ranges(r.items, total)]

-----------------------------------------------------------------------------
(* Names used as inputs.                                                   *)

NameA == <<"a">>
NameB == <<"b">>
NameC == <<"c">>
\* sanitized to b_c
NameBC == <<"b", " ", "/", " ", "c">>
NameIntro == <<"I", "n", "t", "r", "o">>
NameCh1 == <<"C", "h", "1">>
NameSec11 == <<"S", "e", "c", "1", ".", "1">>

Levels == {1, 2}

\* the items an outline of a document of n pages can hold once validated
ItemPool(n) == {<<name, page, level>> :
                    name \in {NameA, NameB}, page \in 1..n, level \in Levels}

\* the worked example: three items, two of them on page 3, over 10 pages
Example ==
    [items |-> <<<<NameIntro, 1, 1>>, <<NameCh1, 3, 1>>, <<NameSec11, 3, 2>>>>,
     total_pages |-> 10,
     chapters |-> <<<<NameIntro, 0, 1, 1>>, <<NameCh1, 2, 2, 1>>,
                    <<NameSec11, 2, 9, 2>>>>]

-----------------------------------------------------------------------------
(* The idle values of the state a specification does not use.              *)

NoDoc == doc = <<>>
NoOutline == source = "none" /\ xml_root = <<>> /\ toc = <<>> /\ page_offset = 0
NoRanges == given = <<>> /\ items = <<>> /\ chapters = <<>> /\ error = "none"
NoFonts == size_counter = <<>> /\ body_size = 0 /\ heading_map = <<>>
NoConvert == page_indices = <<>> /\ md_text = <<>> /\ warned = FALSE
             /\ rendered = <<>> /\ written = <<>>
NoBatch == path_context = <<>> /\ counters = <<>> /\ archive = <<>>
           /\ steps = <<>>
NoBlock == data_blocks = <<>> /\ page_parts = <<>> /\ block_parts = <<>>
           /\ pending_lines = <<>>

-----------------------------------------------------------------------------
(* SpecRanges: _compute_page_ranges applied to every validated item list.  *)

RangesInit ==
    /\ phase = "start"
    /\ \/ /\ total_pages \in 1..MaxPages
          /\ given \in SeqsUpTo(ItemPool(total_pages), MaxItems)
       \/ /\ total_pages = Example.total_pages
          /\ given = Example.items
    /\ items = given
    /\ chapters = <<>>
    /\ error = "none"
    /\ outcome = "none"
    /\ NoDoc /\ NoOutline /\ NoFonts /\ NoConvert /\ NoBatch /\ NoBlock

\* a call _compute_page_ranges(items, total_pages)
ComputePageRanges ==
    /\ phase = "start"
    /\ items' = sort_by_page(items)
    /\ chapters' = compute_page_ranges(items, total_pages)
    /\ phase' = "ranged"
    /\ UNCHANGED <<doc, total_pages, blockVars, outlineVars, given, error, fontVars,
                   convertVars, batchVars, outcome>>

RangesNext == ComputePageRanges

SpecRanges == RangesInit /\ [][RangesNext]_vars

-----------------------------------------------------------------------------
(* Claims about _compute_page_ranges.                                      *)

\* the pages of chapter c: the inclusive range [start0, end0]
PagesOf(c) == c[2]..c[3]

\* C1 as stated: after _compute_page_ranges, any two distinct chapters have
\* no page in common, also when two or more items share a page.
C1_NonOverlapping ==
    phase = "ranged" =>
        \A i, j \in DOMAIN chapters :
            i # j => PagesOf(chapters[i]) \cap PagesOf(chapters[j]) = {}

\* C1 as amended: two chapters whose items lie on different pages have no
\* page in common, and two chapters whose items share a page have exactly
\* that page in common.
C1_NonOverlappingUnlessSamePage ==
    phase = "ranged" =>
        \A i, j \in DOMAIN chapters :
            i # j =>
                PagesOf(chapters[i]) \cap PagesOf(chapters[j]) =
                    IF chapters[i][2] = chapters[j][2]
                    THEN {chapters[i][2]} ELSE {}

C1_Witness ==
    /\ phase = "ranged"
    /\ \E i, j \in DOMAIN chapters : i # j /\ chapters[i][2] = chapters[j][2]
    /\ \E i, j \in DOMAIN chapters : chapters[i][2] + 1 = chapters[j][2]

\* C2: for a non-empty item list the chapters are in ascending start0 order
\* and the union of their ranges is exactly the pages from the smallest
\* item page's start0 up to total_pages - 1.
C2_SortedAndCovering ==
    (phase = "ranged" /\ given # <<>>) =>
        /\ Len(chapters) = Len(given)
        /\ \A i, j \in DOMAIN chapters :
                i < j => chapters[i][2] <= chapters[j][2]
        /\ UNION {PagesOf(chapters[i]) : i \in DOMAIN chapters} =
                {p \in 0..(total_pages - 1) :
                    \E k \in DOMAIN given : p >= given[k][2] - 1}

C2_Witness ==
    /\ phase = "ranged"
    /\ Len(given) >= 2
    /\ given[1][2] > given[2][2]
    /\ given[2][2] > 1

\* the order of the output: position i of the output holds item perm[i] of
\* the input, pages ascend, and items of one page keep their input order
IsStableOrder(perm) ==
    /\ \A i, j \in DOMAIN perm : i < j =>
            \/ given[perm[i]][2] < given[perm[j]][2]
            \/ given[perm[i]][2] = given[perm[j]][2] /\ perm[i] < perm[j]

\* C3: the output lists the items in stable page order, name and depth
\* unchanged, with start0 = page - 1 and end0 = max(next page - 2, start0),
\* or total_pages - 1 for the last; so 0 <= start0 <= end0 <= total_pages - 1;
\* and the example of three items over 10 pages gives the stated chapters.
C3_ReferenceRule ==
    phase = "ranged" =>
        /\ Len(chapters) = Len(given)
        /\ \E perm \in [DOMAIN given -> DOMAIN given] :
            /\ IsStableOrder(perm)
            /\ \A i \in DOMAIN chapters :
                LET it == given[perm[i]]
                    c == chapters[i]
                IN  /\ c[1] = it[1]
                    /\ c[4] = it[3]
                    /\ c[2] = it[2] - 1
                    /\ c[3] = IF i < Len(chapters)
                              THEN Max(given[perm[i + 1]][2] - 2, c[2])
                              ELSE total_pages - 1
        /\ \A i \in DOMAIN chapters :
                /\ 0 <= chapters[i][2]
                /\ chapters[i][2] <= chapters[i][3]
                /\ chapters[i][3] <= total_pages - 1
        /\ (given = Example.items /\ total_pages = Example.total_pages)
                => chapters = Example.chapters

C3_Witness ==
    /\ phase = "ranged"
    /\ given = Example.items
    /\ total_pages = Example.total_pages
    /\ chapters = Example.chapters

-----------------------------------------------------------------------------
(* SpecHeading: build_heading_map applied to every histogram and body size.*)

\* rounded sizes, in tenths of a point
SizePool == {90, 100, 105, 110, 120, 140, 160, 180, 240}

\* histograms over the keys S, inserted in ascending or descending order or
\* with the two halves swapped, with counts that differ from key to key
HistogramsOver(S) ==
    LET asc == ascending(S)
        half == Len(asc) \div 2
        orders == {asc, reversed(asc),
                   SubSeq(asc, half + 1, Len(asc)) \o SubSeq(asc, 1, half)}
    IN  {[i \in DOMAIN o |-> <<o[i], 1 + (o[i] % 7)>>] : o \in orders}

HeadingInit ==
    /\ phase = "start"
    /\ \E S \in SUBSET SizePool : size_counter \in HistogramsOver(S)
    /\ body_size \in SizePool
    /\ heading_map = <<>>
    /\ total_pages = 0
    /\ outcome = "none"
    /\ NoDoc /\ NoOutline /\ NoRanges /\ NoConvert /\ NoBatch /\ NoBlock

\* a call build_heading_map(size_counter, body_size)
BuildHeadingMap ==
    /\ phase = "start"
    /\ heading_map' = build_heading_map(size_counter, body_size)
    /\ phase' = "mapped"
    /\ UNCHANGED <<doc, total_pages, blockVars, outlineVars, rangeVars, size_counter,
                   body_size, convertVars, batchVars, outcome>>

HeadingNext == BuildHeadingMap

SpecHeading == HeadingInit /\ [][HeadingNext]_vars

\* C4: the keys of the heading map are exactly the histogram sizes above the
\* body size (never the body size); its levels are 1..min(6, number of
\* larger sizes), the largest size at level 1; a larger size never has a
\* larger level than a smaller one; two sizes share a level only at level 6.
C4_HeadingMap ==
    phase = "mapped" =>
        LET keys == DOMAIN heading_map
            larger == {x \in Range(counter_keys(size_counter)) : x > body_size}
        IN  /\ keys = larger
            /\ body_size \notin keys
            /\ {heading_map[x] : x \in keys} = 1..Min(6, Cardinality(larger))
            /\ \A x \in keys : (\A y \in keys : y <= x) => heading_map[x] = 1
            /\ \A x, y \in keys : x > y => heading_map[x] <= heading_map[y]
            /\ \A x, y \in keys :
                    (x # y /\ heading_map[x] = heading_map[y])
                        => heading_map[x] = 6

C4_Witness ==
    /\ phase = "mapped"
    /\ Cardinality(DOMAIN heading_map) = 8
    /\ \E i \in DOMAIN size_counter : size_counter[i][1] = body_size
    /\ size_counter[1][1] < size_counter[2][1]
    /\ Cardinality({x \in DOMAIN heading_map : heading_map[x] = 6}) = 3

-----------------------------------------------------------------------------
(* Pages used as inputs.                                                   *)

Span(text, size) == [text |-> text, size |-> size]
Line(spans) == [spans |-> spans]
TextBlock(lines) == [type |-> 0, lines |-> lines]
ImageBlock == [type |-> 1]

PageEmpty == <<>>
PageImage == <<ImageBlock>>
\* a text block that holds white space only
PageBlank == <<TextBlock(<<Line(<<Span(<<" ">>, 1400)>>)>>)>>
\* two characters of size 10.0
PageBody10 == <<TextBlock(<<Line(<<Span(<<"a", "b">>, 1000)>>)>>)>>
\* two characters of size 12.0, from raw sizes 11.96 and 12.04
PageBody12 ==
    <<TextBlock(<<Line(<<Span(<<"c", " ">>, 1196), Span(<<"d">>, 1204)>>)>>)>>
\* one character each of the sizes 16.0, 10.0 and 12.0, in this order
PageMixed ==
    <<ImageBlock,
      TextBlock(<<Line(<<Span(<<"T">>, 1600)>>),
                  Line(<<Span(<<"e">>, 1000), Span(<<" ">>, 2400),
                         Span(<<"f">>, 1204)>>)>>)>>

PagePool == {PageEmpty, PageImage, PageBlank, PageBody10, PageBody12, PageMixed}

-----------------------------------------------------------------------------
(* SpecBatch: the loop of batch_convert_to_zip over every chapter sequence.*)
(* The chapter list is drawn one chapter at a time, as the loop consumes   *)
(* it; chapters holds the part consumed so far.  The chapters come in      *)
(* pairs that cover the same page, as for an outline with two items on     *)
(* every page of its first half.                                           *)

MaxChapters == 4

BatchNames == {NameA, NameB, NameC, NameBC}
BatchLevels == {1, 2, 3}

\* a document whose odd pages hold no text
BatchDocs ==
    {[i \in 1..MaxChapters |-> IF i % 2 = 1 THEN PageImage ELSE PageMixed]}

BatchInit ==
    /\ phase = "batch"
    /\ doc \in BatchDocs
    /\ total_pages = Len(doc)
    /\ outcome = "none"
    /\ NoOutline /\ NoRanges /\ NoFonts /\ NoConvert /\ NoBatch /\ NoBlock

\* the loop takes the next chapter of the list
BatchChapter ==
    /\ phase = "batch"
    /\ Len(chapters) < MaxChapters
    /\ \E name \in BatchNames, level \in BatchLevels :
           LET page == Len(chapters) \div 2
               ch == <<name, page, page, level>>
           IN  /\ chapters' = Append(chapters, ch)
               /\ BatchStep(ch)
    /\ UNCHANGED <<phase, outcome>>

\* the list is exhausted: return buf.getvalue(), and the caller writes the zip
BatchReturn ==
    /\ phase = "batch"
    /\ phase' = "done"
    /\ outcome' = "ok"
    /\ UNCHANGED <<doc, total_pages, blockVars, outlineVars, rangeVars, fontVars,
                   convertVars, batchVars>>

BatchNext == BatchChapter \/ BatchReturn

SpecBatch == BatchInit /\ [][BatchNext]_vars

\* the earlier chapters that are open ancestors of chapter i: of smaller
\* depth, and not followed before i by a chapter of equal or smaller depth
OpenAncestors(i) ==
    {j \in 1..(i - 1) :
        /\ chapters[j][4] < chapters[i][4]
        /\ \A k \in (j + 1)..(i - 1) : chapters[k][4] > chapters[j][4]}

\* their sanitized names in ascending depth order, joined with "/"
ExpectedParentKey(i) ==
    LET depths == ascending({chapters[j][4] : j \in OpenAncestors(i)})
        at(d) == CHOOSE j \in OpenAncestors(i) : chapters[j][4] = d
    IN  join(<<"/">>,
             [n \in DOMAIN depths |-> sanitize_filename(chapters[at(depths[n])][1])])

MdSuffix == <<".", "m", "d">>

C6_SequenceNumbers ==
    /\ Len(steps) = Len(chapters)
    /\ \A i \in DOMAIN steps :
            steps[i].seq =
                1 + Cardinality({j \in 1..(i - 1) :
                                    steps[j].parent_key = steps[i].parent_key})
    /\ (\A i, j \in DOMAIN chapters : chapters[i][4] = chapters[j][4]) =>
            \A i \in DOMAIN steps :
                /\ steps[i].seq = i
                /\ SubSeq(steps[i].full_path, 1, 3) = <<"0", DigitChar[i + 1], "_">>

C6_CountersGrow ==
    \A k \in DOMAIN counters :
        k \in DOMAIN counters' /\ counters'[k] >= counters[k]

\* C6: a chapter's sequence number is 1 plus the number of earlier chapters
\* with the same parent key; chapters all of one depth get the prefixes 01_,
\* 02_, 03_, ... without gaps; and no sibling counter is ever reset or
\* decremented during the job.
C6_SiblingNumbering == []C6_SequenceNumbers /\ [][C6_CountersGrow]_vars

C6_Witness ==
    /\ Len(steps) = 4
    /\ steps[2].parent_key # <<>> /\ steps[2].seq = 1
    /\ steps[3].parent_key = steps[2].parent_key /\ steps[3].seq = 2
    /\ steps[4].parent_key = <<>> /\ steps[4].seq = 2

\* C7: the parent key of a chapter of depth D is the "/"-join, in ascending
\* depth order, of the sanitized names of its open ancestors; once it is
\* processed the path context holds no key above D and maps D to its
\* sanitized name; a, b, c at depths 1, 2, 3 get the paths 01_a, a/01_b,
\* a/b/01_c (before the .md extension) and a later chapter of depth 1 has
\* the empty parent key again.
C7_ParentKey ==
    /\ \A i \in DOMAIN steps : steps[i].parent_key = ExpectedParentKey(i)
    /\ steps # <<>> =>
            LET last == chapters[Len(chapters)]
            IN  /\ \A k \in DOMAIN path_context : k <= last[4]
                /\ last[4] \in DOMAIN path_context
                /\ path_context[last[4]] = sanitize_filename(last[1])
    /\ (/\ Len(chapters) >= 3
        /\ \A i \in 1..3 : chapters[i][4] = i
        /\ chapters[1][1] = NameA /\ chapters[2][1] = NameB
        /\ chapters[3][1] = NameC) =>
            /\ steps[1].full_path = <<"0", "1", "_", "a">> \o MdSuffix
            /\ steps[2].full_path = <<"a", "/", "0", "1", "_", "b">> \o MdSuffix
            /\ steps[3].full_path =
                    <<"a", "/", "b", "/", "0", "1", "_", "c">> \o MdSuffix
            /\ \A i \in DOMAIN steps :
                    chapters[i][4] = 1 => steps[i].parent_key = <<>>

C7_Witness ==
    /\ Len(chapters) = 4
    /\ \A i \in 1..3 : chapters[i][4] = i
    /\ chapters[1][1] = NameA /\ chapters[2][1] = NameB
    /\ chapters[3][1] = NameC
    /\ chapters[4][4] = 1
    /\ steps[4].parent_key = <<>>
    /\ DOMAIN path_context = {1}

\* a chapter under an ancestor whose name sanitization changes, after a
\* deeper branch was closed
C7_WitnessSanitized ==
    /\ Len(chapters) = 4
    /\ chapters[1][1] = NameBC /\ chapters[1][4] = 1
    /\ chapters[2][4] = 3
    /\ chapters[3][4] = 2
    /\ chapters[4][4] = 3
    /\ steps[4].parent_key = <<"b", "_", "c", "/">> \o chapters[3][1]

-----------------------------------------------------------------------------
(* SpecConvert: convert called by main (single file mode), by process_pdf  *)
(* of the web UI, and per chapter by batch_convert_to_zip, for every       *)
(* document over PagePool.                                                 *)

MaxDocPages == 2
MaxIndices == 2
MaxConvertChapters == 2

ConvertInit ==
    /\ phase = "start"
    /\ \E n \in 1..MaxDocPages : doc \in [1..n -> PagePool]
    /\ total_pages = Len(doc)
    \* [] stands for all pages; parse_page_ranges gives any list of valid pages
    /\ page_indices \in SeqsUpTo(0..(Len(doc) - 1), MaxIndices)
    /\ md_text = <<>> /\ warned = FALSE /\ rendered = <<>> /\ written = <<>>
    /\ outcome = "none"
    /\ NoOutline /\ NoRanges /\ NoFonts /\ NoBatch /\ NoBlock

\* main, single file mode: convert, then output_path.write_text(result)
Main ==
    /\ phase = "start"
    /\ LET r == convert(doc, page_indices)
       IN  /\ size_counter' = r.size_counter
           /\ body_size' = r.body_size
           /\ heading_map' = r.heading_map
           /\ md_text' = r.md_text
           /\ warned' = r.warned
           /\ rendered' = r.rendered
           /\ written' = Append(written, r.md_text)
    /\ outcome' = "ok"
    /\ phase' = "done"
    /\ UNCHANGED <<doc, total_pages, blockVars, outlineVars, rangeVars, page_indices,
                   batchVars>>

\* process_pdf of web.py: convert under warnings.catch_warnings(record=True);
\* a caught warning is raised as gr.Error before anything is written
ProcessPdf ==
    /\ phase = "start"
    /\ LET r == convert(doc, page_indices)
       IN  /\ size_counter' = r.size_counter
           /\ body_size' = r.body_size
           /\ heading_map' = r.heading_map
           /\ md_text' = r.md_text
           /\ warned' = r.warned
           /\ rendered' = r.rendered
           /\ written' = IF r.warned THEN written
                         ELSE Append(written, r.md_text)
           /\ outcome' = IF r.warned THEN "error" ELSE "ok"
    /\ phase' = "done"
    /\ UNCHANGED <<doc, total_pages, blockVars, outlineVars, rangeVars, page_indices,
                   batchVars>>

\* batch mode (--pages is ignored): the loop of batch_convert_to_zip takes a
\* chapter that covers any range of the document
ConvertBatchChapter ==
    /\ phase \in {"start", "batch"}
    /\ phase = "start" => page_indices = <<>>
    /\ Len(chapters) < MaxConvertChapters
    /\ \E start \in 0..(Len(doc) - 1) : \E end \in start..(Len(doc) - 1) :
           LET ch == <<NameA, start, end, 1>>
           IN  /\ chapters' = Append(chapters, ch)
               /\ BatchStep(ch)
    /\ phase' = "batch"
    /\ UNCHANGED outcome

ConvertNext == Main \/ ProcessPdf \/ ConvertBatchChapter \/ BatchReturn

SpecConvert == ConvertInit /\ [][ConvertNext]_vars

\* C5: when the histogram of the first pass is not empty, the body size is
\* one of its keys, no key has a higher count, and no key inserted before
\* it has the same count.
C5_BodySize ==
    size_counter # <<>> =>
        \E i \in DOMAIN size_counter :
            /\ size_counter[i][1] = body_size
            /\ \A j \in DOMAIN size_counter :
                    /\ size_counter[j][2] <= size_counter[i][2]
                    /\ j < i => size_counter[j][2] < size_counter[i][2]

\* two keys share the highest count and the one inserted first, which is
\* the larger size, is the body size
C5_Witness ==
    /\ Len(size_counter) = 2
    /\ size_counter[1][2] = size_counter[2][2]
    /\ size_counter[1][1] > size_counter[2][1]
    /\ body_size = size_counter[1][1]
    /\ rendered # <<>>

\* C10 as stated: a conversion whose histogram is empty renders no page,
\* yields no output and ends as an error of the caller, in single file mode
\* and for every chapter of a batch.
C10_NoTextFails ==
    /\ warned => (rendered = <<>> /\ md_text = <<>> /\ written = <<>>)
    /\ \A i \in DOMAIN archive : archive[i][2] # <<>>
    /\ (phase = "done" /\ warned) => outcome = "error"

-----------------------------------------------------------------------------
(* Spec: batch mode of main and process_pdf_batch.  The outline is parsed  *)
(* from a bookmark file or from the embedded table of contents; a          *)
(* BookmarkError ends the job; otherwise batch_convert_to_zip converts the *)
(* chapters in order and the caller writes the archive.                    *)

MaxNodes == 3
MaxToc == 3

Item(name, page, children) ==
    [name |-> name, page |-> page, children |-> children]

\* the NAME and PAGE attributes of the ITEM elements of the model
NodePool ==
    {<<NameA, <<"0">>>>,            \* in range with offset 1 only
     <<<<" ", "b">>, <<"2">>>>,     \* the name is stripped
     <<NameC, <<"3">>>>,            \* in range with offset 0 only
     <<<<>>, <<"2">>>>,             \* empty name
     <<<<" ">>, <<"x">>>>,          \* blank name
     <<NameC, <<>>>>,               \* empty page
     <<NameA, <<" ">>>>,            \* blank page
     <<NameB, <<"x">>>>}            \* page that is no number

\* the forests of exactly n ITEM elements
RECURSIVE ForestsOfSize(_)
ForestsOfSize(n) ==
    IF n = 0 THEN {<<>>}
    ELSE UNION {{<<Item(a[1], a[2], c)>> \o rest :
                    a \in NodePool, c \in ForestsOfSize(k - 1),
                    rest \in ForestsOfSize(n - k)} : k \in 1..n}

\* the entries get_toc(simple=True) gives: <<level, title, page>>
TocPool ==
    {<<1, NameA, 0>>, <<2, <<" ", "b">>, 2>>, <<1, NameC, 3>>,
     <<1, <<" ">>, 9>>, <<3, NameA, 2>>, <<2, <<>>, 1>>}

\* a document of three pages, the second without text
OutlineDoc == <<PageBody10, PageImage, PageMixed>>

Init ==
    /\ phase = "start"
    /\ doc = OutlineDoc
    /\ total_pages = Len(doc)
    /\ page_offset \in {0, 1}
    /\ \/ /\ source = "xml"
          /\ \E n \in 0..MaxNodes : xml_root \in ForestsOfSize(n)
          /\ toc = <<>>
       \/ /\ source = "toc"
          /\ toc \in SeqsUpTo(TocPool, MaxToc)
          /\ xml_root = <<>>
    /\ outcome = "none"
    /\ NoRanges /\ NoFonts /\ NoConvert /\ NoBatch /\ NoBlock

\* what the caller does with the parser's result r: a BookmarkError is
\* reported and ends the job, otherwise batch_convert_to_zip is entered
Parsed(r) ==
    /\ error' = r.error
    /\ given' = r.items
    /\ items' = sort_by_page(r.items)
    /\ chapters' = r.chapters
    /\ phase' = IF r.error = "none" THEN "batch" ELSE "done"
    /\ outcome' = IF r.error = "none" THEN outcome ELSE "error"
    /\ UNCHANGED <<doc, total_pages, blockVars, outlineVars, fontVars, convertVars,
                   batchVars>>

ParseBookmarks ==
    /\ phase = "start"
    /\ source = "xml"
    /\ Parsed(parse_bookmarks(xml_root, total_pages, page_offset))

ParseBookmarksFromToc ==
    /\ phase = "start"
    /\ source = "toc"
    /\ Parsed(parse_bookmarks_from_toc(toc, total_pages, page_offset))

\* the loop of batch_convert_to_zip takes the next chapter
ConvertChapter ==
    /\ phase = "batch"
    /\ Len(steps) < Len(chapters)
    /\ BatchStep(chapters[Len(steps) + 1])
    /\ UNCHANGED <<chapters, phase, outcome>>

ReturnArchive ==
    /\ Len(steps) = Len(chapters)
    /\ BatchReturn

Next ==
    ParseBookmarks \/ ParseBookmarksFromToc \/ ConvertChapter \/ ReturnArchive

Spec == Init /\ [][Next]_vars

\* every ITEM element of a forest, in document order, with its nesting
\* level: <<NAME, PAGE, level>>
RECURSIVE Elements(_, _)
Elements(forest, depth) ==
    IF forest = <<>> THEN <<>>
    ELSE <<<<Head(forest).name, Head(forest).page, depth>>>>
         \o Elements(Head(forest).children, depth + 1)
         \o Elements(Tail(forest), depth)

Blank(text) == \A i \in DOMAIN text : text[i] \in Whitespace

\* the number a text denotes, if it is a number
IsNumber(text, n) ==
    strip(text) \in {decimal(n), <<"+">> \o decimal(n)}

Numeric(text) == \E n \in 0..99 : IsNumber(text, n)

NumberOf(text) == CHOOSE n \in 0..99 : IsNumber(text, n)

\* the usable entries of the outline source, as <<page is a number, page>>:
\* an ITEM with a name that is not blank and a PAGE that is not empty, a
\* toc entry with a title that is not blank
UsablePages ==
    IF source = "xml"
    THEN LET all == Elements(xml_root, 1)
         IN  {<<Numeric(all[i][2]),
                IF Numeric(all[i][2]) THEN NumberOf(all[i][2]) ELSE 0>> :
                    i \in {k \in DOMAIN all :
                              ~Blank(all[k][1]) /\ all[k][2] # <<>>}}
    ELSE {<<TRUE, toc[i][3]>> : i \in {k \in DOMAIN toc : ~Blank(toc[k][2])}}

\* C8: the parsers either raise BookmarkError or hand on only items with the
\* corrected page in [1, total_pages] and depth >= 1; they raise it exactly
\* when there is no usable entry, or a usable entry's page is no number or,
\* with the offset added, lies outside [1, total_pages]; and once it is
\* raised no range is computed, no page rendered, no archive entry written.
C8_OutlineErrors ==
    phase # "start" =>
        /\ error \in {"none", "BookmarkError"}
        /\ error = "BookmarkError" <=>
                \/ UsablePages = {}
                \/ \E u \in UsablePages :
                        ~u[1] \/ u[2] + page_offset \notin 1..total_pages
        /\ error = "none" =>
                /\ given # <<>>
                /\ Len(chapters) = Len(given)
                /\ \A i \in DOMAIN given :
                        given[i][2] \in 1..total_pages /\ given[i][3] >= 1
        /\ error = "BookmarkError" =>
                /\ phase = "done" /\ outcome = "error"
                /\ given = <<>> /\ chapters = <<>>
                /\ rendered = <<>> /\ md_text = <<>> /\ archive = <<>>

\* the second of two usable entries has a page past the end of the document
C8_Witness ==
    /\ error = "BookmarkError"
    /\ Cardinality(UsablePages) = 2
    /\ \A u \in UsablePages : u[1]
    /\ \E u \in UsablePages : u[2] + page_offset \in 1..total_pages
    /\ \E u \in UsablePages : u[2] + page_offset > total_pages

\* C9 as stated: an ITEM whose name or page value is empty or blank is
\* skipped without an error, and the other elements, its descendants among
\* them, are in the output with their own nesting level.
C9_BlankSkipped ==
    (source = "xml" /\ phase # "start") =>
        LET all == Elements(xml_root, 1)
            kept == {k \in DOMAIN all : ~Blank(all[k][1]) /\ ~Blank(all[k][2])}
            order == ascending(kept)
        IN  (/\ kept # {}
             /\ \A k \in kept :
                    /\ Numeric(all[k][2])
                    /\ NumberOf(all[k][2]) + page_offset \in 1..total_pages) =>
                /\ error = "none"
                /\ given = [n \in DOMAIN order |->
                               <<strip(all[order[n]][1]),
                                 NumberOf(all[order[n]][2]) + page_offset,
                                 all[order[n]][3]>>]

\* C9 as amended: an ITEM whose name is empty or blank, or whose page value
\* is empty, is skipped without an error, and the other elements, its
\* descendants among them, are in the output with their own nesting level
\* (a page value that is blank but not empty is read as a page and raises
\* BookmarkError).
C9_EmptySkipped ==
    (source = "xml" /\ phase # "start") =>
        LET all == Elements(xml_root, 1)
            kept == {k \in DOMAIN all : ~Blank(all[k][1]) /\ all[k][2] # <<>>}
            order == ascending(kept)
        IN  (/\ kept # {}
             /\ \A k \in kept :
                    /\ Numeric(all[k][2])
                    /\ NumberOf(all[k][2]) + page_offset \in 1..total_pages) =>
                /\ error = "none"
                /\ given = [n \in DOMAIN order |->
                               <<strip(all[order[n]][1]),
                                 NumberOf(all[order[n]][2]) + page_offset,
                                 all[order[n]][3]>>]

\* an element with a blank name holds one with an empty page, which holds
\* an element that is in the output at depth 3
C9_Witness ==
    /\ source = "xml"
    /\ error = "none"
    /\ Len(xml_root) = 1
    /\ xml_root[1].name = <<" ">>
    /\ Len(xml_root[1].children) = 1
    /\ xml_root[1].children[1].page = <<>>
    /\ Len(given) = 1
    /\ given[1][3] = 3

-----------------------------------------------------------------------------
(* The paths of the archive entries written by batch_convert_to_zip.       *)

\* C12: every chapter processed so far has one archive entry, and the paths
\* of the archive entries are pairwise distinct.
C12_DistinctPaths ==
    /\ Len(archive) = Len(chapters)
    /\ \A i, j \in DOMAIN archive : i # j => archive[i][1] # archive[j][1]

\* the same chapter of depth 1 twice on one page, then under it, two levels
\* deeper, two chapters of one name on the next page
C12_Witness ==
    /\ phase = "batch"
    /\ Len(chapters) = 4
    /\ Len(archive) = 4
    /\ chapters[1] = chapters[2]
    /\ chapters[1][4] = 1
    /\ chapters[3][4] = 3
    /\ chapters[4][4] = 3
    /\ chapters[3] = chapters[4]
    /\ chapters[3][1] = NameBC

-----------------------------------------------------------------------------
(* SpecBlock: the loops of process_page, one step per block and per line.  *)
(* The blocks and the lines are drawn as the loops take them; data_blocks  *)
(* holds the part taken so far, its last block growing while its lines are *)
(* processed.                                                              *)

MaxBlocks == 2
MaxLines == 3

\* white space only, of a heading size
LineBlank == Line(<<Span(<<" ">>, 1600)>>)
LineBodyA == Line(<<Span(<<"a">>, 1000)>>)
\* body text followed by white space of a heading size
LineBodyB == Line(<<Span(<<"b", " ">>, 1000), Span(<<" ">>, 1600)>>)
LineCJK == Line(<<Span(<<"U+4F60">>, 1000)>>)
LineTitle == Line(<<Span(<<"T">>, 1600)>>)
\* raw size 14.04, rounded to 14.0
LineSub == Line(<<Span(<<"U">>, 1404)>>)

LinePool == {LineBlank, LineBodyA, LineBodyB, LineCJK, LineTitle, LineSub}

\* the histograms of the first pass: body size 10.0, with the sizes 16.0 and
\* 14.0 above it, or 16.0 only
BlockCounters ==
    {<<<<100, 3>>, <<160, 1>>, <<140, 1>>>>, <<<<100, 3>>, <<160, 1>>>>}

BlockInit ==
    /\ phase = "page"
    /\ size_counter \in BlockCounters
    /\ body_size = most_common(size_counter)[1]
    /\ heading_map = build_heading_map(size_counter, body_size)
    /\ outcome = "none"
    /\ NoDoc /\ total_pages = 0
    /\ NoOutline /\ NoRanges /\ NoConvert /\ NoBatch /\ NoBlock

\* for block in data["blocks"]: a block of another type is passed over, a
\* text block starts with empty block_parts and pending_lines
NextBlock ==
    /\ phase = "page"
    /\ Len(data_blocks) < MaxBlocks
    /\ \/ /\ data_blocks' = Append(data_blocks, ImageBlock)
          /\ UNCHANGED <<phase, block_parts, pending_lines>>
       \/ /\ data_blocks' = Append(data_blocks, TextBlock(<<>>))
          /\ block_parts' = <<>>
          /\ pending_lines' = <<>>
          /\ phase' = "block"
    /\ UNCHANGED <<doc, total_pages, outlineVars, rangeVars, fontVars,
                   convertVars, batchVars, page_parts, outcome>>

\* for line in block["lines"]: one iteration
NextLine ==
    /\ phase = "block"
    /\ Len(data_blocks[Len(data_blocks)].lines) < MaxLines
    /\ \E line \in LinePool :
          LET text == process_line(line)[1]
              max_size == process_line(line)[2]
              n == Len(data_blocks)
          IN  /\ data_blocks' =
                    [data_blocks EXCEPT ![n].lines = Append(@, line)]
              /\ IF text = <<>>
                 THEN UNCHANGED <<block_parts, pending_lines>>
                 ELSE IF max_size \in DOMAIN heading_map
                 THEN /\ block_parts' =
                            Append(flush_pending(block_parts, pending_lines),
                                   heading_line(heading_map[max_size], text))
                      /\ pending_lines' = <<>>
                 ELSE /\ pending_lines' = Append(pending_lines, text)
                      /\ UNCHANGED block_parts
    /\ UNCHANGED <<phase, doc, total_pages, outlineVars, rangeVars, fontVars,
                   convertVars, batchVars, page_parts, outcome>>

\* the lines are exhausted: the remaining pending_lines are appended to
\* block_parts (pending_lines itself is left as it is), and the block's
\* parts, if any, are joined into page_parts
EndBlock ==
    /\ phase = "block"
    /\ block_parts' = flush_pending(block_parts, pending_lines)
    /\ page_parts' = IF block_parts' # <<>>
                     THEN Append(page_parts, join(<<"\n", "\n">>, block_parts'))
                     ELSE page_parts
    /\ phase' = "page"
    /\ UNCHANGED <<doc, total_pages, outlineVars, rangeVars, fontVars,
                   convertVars, batchVars, data_blocks, pending_lines,
                   outcome>>

\* the blocks are exhausted: return "\n\n".join(page_parts)
ReturnPage ==
    /\ phase = "page"
    /\ md_text' = join(<<"\n", "\n">>, page_parts)
    /\ phase' = "done"
    /\ outcome' = "ok"
    /\ UNCHANGED <<doc, total_pages, outlineVars, rangeVars, fontVars,
                   page_indices, warned, rendered, written, batchVars,
                   blockVars>>

BlockNext == NextBlock \/ NextLine \/ EndBlock \/ ReturnPage

SpecBlock == BlockInit /\ [][BlockNext]_vars

\* the <<text, max size>> pairs of the non-blank lines of a block, in order
NonBlank(block) ==
    LET kept == ascending({k \in DOMAIN block.lines :
                              process_line(block.lines[k])[1] # <<>>})
    IN  [n \in DOMAIN kept |-> process_line(block.lines[kept[n]])]

IsHeadingLine(nb, k) == nb[k][2] \in DOMAIN heading_map

\* a paragraph of the texts nb[from..to]
Paragraph(nb, from, to) ==
    LET texts == [n \in 1..(to - from + 1) |-> nb[from + n - 1][1]]
    IN  join(IF is_cjk_text(join(<<>>, texts)) THEN <<>> ELSE <<" ">>, texts)

\* the parts of a sequence of non-blank lines: one for each heading line and
\* one for each maximal run of lines between headings, in line order
PartsOf(nb) ==
    LET starts == ascending({k \in DOMAIN nb :
                        \/ IsHeadingLine(nb, k)
                        \/ k = 1
                        \/ IsHeadingLine(nb, k - 1)})
        run_end(k) == CHOOSE j \in k..Len(nb) :
                        /\ \A m \in k..j : ~IsHeadingLine(nb, m)
                        /\ j = Len(nb) \/ IsHeadingLine(nb, j + 1)
    IN  [n \in DOMAIN starts |->
            LET k == starts[n]
            IN  IF IsHeadingLine(nb, k)
                THEN [m \in 1..heading_map[nb[k][2]] |-> "#"]
                         \o <<" ">> \o nb[k][1]
                ELSE Paragraph(nb, k, run_end(k))]

\* the number of the last heading line of nb, or 0
LastHeading(nb) ==
    LET hs == {k \in DOMAIN nb : IsHeadingLine(nb, k)}
    IN  IF hs = {} THEN 0 ELSE CHOOSE k \in hs : \A m \in hs : m <= k

\* a text block has ended and no later block has been taken
BlockEnded ==
    /\ phase \in {"page", "done"}
    /\ data_blocks # <<>>
    /\ data_blocks[Len(data_blocks)].type = 0

\* while the lines of a block are processed: block_parts are the parts of the
\* non-blank lines up to the last heading, and pending_lines are the texts of
\* the non-blank lines after it; once the block ends, block_parts are the
\* parts of all its non-blank lines
C11_PartsInLineOrder ==
    /\ phase = "block" =>
          LET nb == NonBlank(data_blocks[Len(data_blocks)])
              h == LastHeading(nb)
          IN  /\ block_parts = PartsOf(SubSeq(nb, 1, h))
              /\ pending_lines = [n \in 1..(Len(nb) - h) |-> nb[h + n][1]]
    /\ BlockEnded =>
          block_parts = PartsOf(NonBlank(data_blocks[Len(data_blocks)]))

\* page_parts holds, for every text block that has ended and has a non-blank
\* line, the parts of that block alone
C11_NothingLostOrCarried ==
    LET ended == ascending({i \in DOMAIN data_blocks :
                    /\ data_blocks[i].type = 0
                    /\ i < Len(data_blocks) \/ phase # "block"
                    /\ NonBlank(data_blocks[i]) # <<>>})
    IN  page_parts = [n \in DOMAIN ended |->
                        join(<<"\n", "\n">>,
                             PartsOf(NonBlank(data_blocks[ended[n]])))]

\* C11 as stated: in a text block, blank lines produce nothing, every
\* non-blank line is in exactly one heading part or one paragraph part, the
\* parts are in line order, no paragraph has lines from both sides of a
\* heading, and pending_lines is empty once the block has ended, no line
\* being lost or carried into the next block.
C11_PendingEmptyAtBlockEnd ==
    /\ C11_PartsInLineOrder
    /\ C11_NothingLostOrCarried
    /\ BlockEnded => pending_lines = <<>>

\* C11 as amended: in a text block, blank lines produce nothing, every
\* non-blank line is in exactly one heading part or one paragraph part, the
\* parts are in line order, no paragraph has lines from both sides of a
\* heading, the lines left in pending_lines when the block ends are its last
\* paragraph part, and every text block starts with empty pending_lines, no
\* line being lost or carried into the next block.
C11_PendingFlushedAtBlockEnd ==
    /\ C11_PartsInLineOrder
    /\ C11_NothingLostOrCarried
    /\ (phase = "block" /\ data_blocks[Len(data_blocks)].lines = <<>>) =>
          pending_lines = <<>> /\ block_parts = <<>>

\* a block of a paragraph line, a heading and a paragraph line has ended with
\* a line pending, and the next block has taken a blank line and a line
C11_Witness ==
    /\ phase = "block"
    /\ Len(data_blocks) = 2
    /\ data_blocks[1] = TextBlock(<<LineBodyA, LineTitle, LineBodyB>>)
    /\ data_blocks[2] = TextBlock(<<LineBlank, LineCJK>>)
    /\ page_parts = << <<"a", "\n", "\n", "#", " ", "T", "\n", "\n", "b">> >>
    /\ block_parts = <<>>
    /\ pending_lines = << <<"U+4F60">> >>

=============================================================================
